---- MODULE Spec2Model ----
(***************************************************************************)
(* A model of the truss-normalizer command: main() of src/main.go and the   *)
(* seven Process* stages of src/unnamed/part_000.                           *)
(*                                                                         *)
(* A Go string is a sequence of characters, each character a one-character  *)
(* TLA+ string.  Two atoms stand for what a TLA+ string cannot spell: a     *)
(* byte that is no valid UTF-8 (BadByte) and the rune U+FFFD (RuneError).   *)
(* A [][]string is a sequence of references into a heap of rows, so that    *)
(* the difference between copying a row and writing it in place is part     *)
(* of the state.                                                            *)
(***************************************************************************)
EXTENDS Integers, Sequences, FiniteSets, TLC

VARIABLES
    input,      \* the table the CSV reader will yield from the input file
    pc,         \* main's position
    heap,       \* the row slices allocated so far: reference -> row
    records,    \* main's `records`: a sequence of references into heap
    preRecs,    \* `records` as passed to the stage that ran last
    preRows,    \* the rows of that table as they were when it was called
    stagesRun,  \* the stages called so far, in call order
    stderr,     \* what was written to os.Stderr, in order: warnings and errors
    outFile,    \* the output file: whether it exists, and the rows written
    exitCode    \* the process's exit status, -1 while it runs

vars == <<input, pc, heap, records, preRecs, preRows, stagesRun, stderr,
          outFile, exitCode>>

----------------------------------------------------------------------------
(* Bounds of the model.                                                    *)

\* data rows of an input table
MaxRows == 2
\* digits of a ZIP cell
MaxZipDigits == 6
\* characters of a FullName cell
MaxNameLen == 5
\* the hours part of a duration cell ranges over 0..MaxHours
MaxHours == 1

----------------------------------------------------------------------------
(* Characters and strings.                                                 *)

BadByte == "#FF"
RuneError == "#FFFD"

DigitChars == <<"0", "1", "2", "3", "4", "5", "6", "7", "8", "9">>
LowerChars == <<"a", "b", "c", "d", "e", "f", "g", "h", "i", "j", "k", "l", "m",
                "n", "o", "p", "q", "r", "s", "t", "u", "v", "w", "x", "y", "z">>
UpperChars == <<"A", "B", "C", "D", "E", "F", "G", "H", "I", "J", "K", "L", "M",
                "N", "O", "P", "Q", "R", "S", "T", "U", "V", "W", "X", "Y", "Z">>

Range(s) == {s[i] : i \in DOMAIN s}

IsDigit(c) == c \in Range(DigitChars)

DigitVal(c) == (CHOOSE i \in 1..10 : DigitChars[i] = c) - 1

\* unicode.IsSpace, on the characters of the model
IsSpace(c) == c \in {" ", "\t"}

SetMin(S) == CHOOSE x \in S : \A y \in S : x <= y
SetMax(S) == CHOOSE x \in S : \A y \in S : y <= x

\* strings.TrimSpace
TrimSpace(s) ==
    LET keep == {i \in 1..Len(s) : ~IsSpace(s[i])}
    IN  IF keep = {} THEN <<>> ELSE SubSeq(s, SetMin(keep), SetMax(keep))

\* unicode.ToUpper of one character; strings.Map turns an invalid byte into
\* U+FFFD
ToUpperChar(c) ==
    IF c = BadByte THEN RuneError
    ELSE IF c \in Range(LowerChars)
         THEN UpperChars[CHOOSE i \in 1..26 : LowerChars[i] = c]
         ELSE c

\* strings.ToUpper
ToUpper(s) == [i \in 1..Len(s) |-> ToUpperChar(s[i])]

\* strings.EqualFold, on the characters of the model (simple case folding)
EqualFold(s, t) == ToUpper(s) = ToUpper(t)

\* utf8.ValidString
ValidString(s) == BadByte \notin Range(s)

\* strings.Split(s, sep) for a one-character separator: the parts between
\* the separators, so one part more than there are separators
RECURSIVE Split(_, _)
Split(s, sep) ==
    LET at == {i \in 1..Len(s) : s[i] = sep}
    IN  IF at = {} THEN <<s>>
        ELSE LET i == SetMin(at)
             IN  <<SubSeq(s, 1, i - 1)>> \o Split(SubSeq(s, i + 1, Len(s)), sep)

\* strings.Fields: the maximal runs of non-space characters
RECURSIVE Fields(_)
Fields(s) ==
    LET keep == {i \in 1..Len(s) : ~IsSpace(s[i])}
    IN  IF keep = {} THEN <<>>
        ELSE LET a == SetMin(keep)
                 stop == {i \in a..Len(s) : IsSpace(s[i])}
                 b == IF stop = {} THEN Len(s) ELSE SetMin(stop) - 1
             IN  <<SubSeq(s, a, b)>> \o Fields(SubSeq(s, b + 1, Len(s)))

\* strings.Join
RECURSIVE Join(_, _)
Join(parts, sep) ==
    IF parts = <<>> THEN <<>>
    ELSE IF Len(parts) = 1 THEN parts[1]
    ELSE parts[1] \o sep \o Join(Tail(parts), sep)

\* n copies of character c
Repeat(c, n) == [i \in 1..n |-> c]

\* the decimal digits of a natural number
RECURSIVE Itoa(_)
Itoa(n) == IF n < 10 THEN <<DigitChars[n + 1]>>
           ELSE Itoa(n \div 10) \o <<DigitChars[(n % 10) + 1]>>

\* a natural number in at least w digits, zero-padded on the left
Pad(n, w) == LET d == Itoa(n)
             IN  IF Len(d) >= w THEN d ELSE Repeat("0", w - Len(d)) \o d

\* the value of a non-empty string of digits
RECURSIVE DigitsVal(_)
DigitsVal(s) == IF s = <<>> THEN 0
                ELSE 10 * DigitsVal(SubSeq(s, 1, Len(s) - 1)) + DigitVal(s[Len(s)])

AllDigits(s) == \A i \in 1..Len(s) : IsDigit(s[i])

\* strconv.Atoi: an optional sign and then one digit or more.  (Atoi also
\* rejects a value outside the int range; the digit strings of the model
\* are far shorter than that.)
Atoi(s) ==
    LET signed == s # <<>> /\ s[1] \in {"+", "-"}
        body == IF signed THEN Tail(s) ELSE s
        ok == body # <<>> /\ AllDigits(body)
    IN  [ok |-> ok,
         val |-> IF ~ok THEN 0
                 ELSE IF signed /\ s[1] = "-" THEN 0 - DigitsVal(body)
                 ELSE DigitsVal(body)]

(***************************************************************************)
(* A float64 is modelled by its value in thousandths (ms) and the sign of   *)
(* a zero (negz: the value is -0).  The duration cells of the model carry   *)
(* at most three fractional digits and are small, so every float64 the      *)
(* program computes is within 1e-9 of a multiple of 0.001 and "%.3f"        *)
(* prints exactly that multiple.  (A fourth fractional digit would need     *)
(* the binary value to round; no cell of the model has one.)                *)
(***************************************************************************)

\* strconv.ParseFloat(s, 64), on decimal literals: an optional sign, digits
\* with at most one point, one digit at least.  (Exponents, hexadecimal
\* floats, underscores, "inf" and "nan" need characters the cells of the
\* model do not contain.)
ParseFloat(s) ==
    LET signed == s # <<>> /\ s[1] \in {"+", "-"}
        neg == signed /\ s[1] = "-"
        body == IF signed THEN Tail(s) ELSE s
        parts == Split(body, ".")
        ip == parts[1]
        fp == IF Len(parts) = 2 THEN parts[2] ELSE <<>>
        ok == /\ Len(parts) <= 2
              /\ AllDigits(ip) /\ AllDigits(fp)
              /\ Len(ip) + Len(fp) >= 1
        fp3 == SubSeq(fp \o <<"0", "0", "0">>, 1, 3)
        mag == DigitsVal(ip) * 1000 + DigitsVal(fp3)
    IN  IF ~ok THEN [ok |-> FALSE, ms |-> 0, negz |-> FALSE]
        ELSE [ok |-> TRUE,
              ms |-> IF neg THEN 0 - mag ELSE mag,
              negz |-> neg /\ mag = 0]

\* float64(n) of an int
FloatOfInt(n) == [ok |-> TRUE, ms |-> n * 1000, negz |-> FALSE]

\* x + y in float64: a zero sum is -0 only when both operands are -0
FloatAdd(x, y) == [ok |-> TRUE, ms |-> x.ms + y.ms, negz |-> x.negz /\ y.negz]

\* fmt.Sprintf("%.3f", x)
FormatFixed3(x) ==
    LET mag == IF x.ms < 0 THEN 0 - x.ms ELSE x.ms
        sign == IF x.ms < 0 \/ x.negz THEN <<"-">> ELSE <<>>
    IN  sign \o Itoa(mag \div 1000) \o <<".">> \o Pad(mag % 1000, 3)

\* Sprintf05s cutting the result to five characters ("%05.5s")
Sprintf05sTruncates(s) ==
    IF Len(s) >= 5 THEN SubSeq(s, 1, 5) ELSE Repeat("0", 5 - Len(s)) \o s

\* fmt.Sprintf("%05s", s): the width counts characters, the padding is "0"
\* and a string at least as wide is printed as it is
Sprintf05s(s) == IF Len(s) >= 5 THEN s ELSE Repeat("0", 5 - Len(s)) \o s

----------------------------------------------------------------------------
(* package time, as far as ProcessTimestamp uses it: Parse with the layout  *)
(* "1/2/06 3:04:05 PM", Date in a location, In and Format(RFC3339).         *)
(* Instants are Unix seconds.  The zone rules are those in force since      *)
(* 2007 (second Sunday of March to first Sunday of November), which is the  *)
(* era of every timestamp of the model.                                     *)

IsLeap(y) == y % 4 = 0 /\ (y % 100 # 0 \/ y % 400 = 0)

DaysBefore == <<0, 31, 59, 90, 120, 151, 181, 212, 243, 273, 304, 334, 365>>

DaysIn(m, y) == IF m = 2 /\ IsLeap(y) THEN 29 ELSE DaysBefore[m + 1] - DaysBefore[m]

LeapsBefore(y) == ((y - 1) \div 4) - ((y - 1) \div 100) + ((y - 1) \div 400)

\* days from 1970-01-01 to January 1st of year y
DaysBeforeYear(y) == 365 * (y - 1970) + LeapsBefore(y) - LeapsBefore(1970)

\* days from 1970-01-01 to the given date
DaysFromCivil(y, m, d) ==
    DaysBeforeYear(y) + DaysBefore[m] + (IF IsLeap(y) /\ m >= 3 THEN 1 ELSE 0) + (d - 1)

\* Unix seconds of a wall clock reading taken as UTC
UnixOfCivil(y, m, d, hh, mm, ss) ==
    DaysFromCivil(y, m, d) * 86400 + hh * 3600 + mm * 60 + ss

\* 0 is Sunday; 1970-01-01 was a Thursday
Weekday(days) == (days + 4) % 7

\* the day of the month of the n-th Sunday of month m of year y
NthSunday(y, m, n) ==
    1 + ((7 - Weekday(DaysFromCivil(y, m, 1))) % 7) + 7 * (n - 1)

\* time.LoadLocation("America/Los_Angeles") and ("America/New_York"): the
\* standard offset; daylight time is one hour more
Pacific == [std |-> 0 - 8 * 3600]
Eastern == [std |-> 0 - 5 * 3600]

\* the instant daylight time starts in year y: 02:00 standard time
DstStart(loc, y) == UnixOfCivil(y, 3, NthSunday(y, 3, 2), 2, 0, 0) - loc.std

\* the instant daylight time ends in year y: 02:00 daylight time
DstEnd(loc, y) == UnixOfCivil(y, 11, NthSunday(y, 11, 1), 2, 0, 0) - (loc.std + 3600)

YearOfDays(days) ==
    CHOOSE y \in 1970..2037 : DaysBeforeYear(y) <= days /\ days < DaysBeforeYear(y + 1)

\* (*Location).lookup: the offset in force at an instant and the period
\* [start, end) it is in force for
Lookup(loc, unix) ==
    LET y == YearOfDays(unix \div 86400)
    IN  IF unix < DstStart(loc, y)
        THEN [offset |-> loc.std, start |-> DstEnd(loc, y - 1), end |-> DstStart(loc, y)]
        ELSE IF unix < DstEnd(loc, y)
        THEN [offset |-> loc.std + 3600, start |-> DstStart(loc, y), end |-> DstEnd(loc, y)]
        ELSE [offset |-> loc.std, start |-> DstEnd(loc, y), end |-> DstStart(loc, y + 1)]

\* time.Date(y, m, d, hh, mm, ss, 0, loc): the wall clock reading is looked
\* up as if it were UTC, and the offset found is kept when the instant it
\* gives lies in that offset's period; otherwise the instant is looked up
TimeDate(y, m, d, hh, mm, ss, loc) ==
    LET wall == UnixOfCivil(y, m, d, hh, mm, ss)
        z == Lookup(loc, wall)
        utc == wall - z.offset
        offset == IF utc < z.start \/ utc >= z.end
                  THEN Lookup(loc, utc).offset ELSE z.offset
    IN  wall - offset

\* getnum(s, fixed): one digit, or two when a second digit follows; with
\* fixed, two digits are required
GetNum(s, fixed) ==
    IF s = <<>> \/ ~IsDigit(s[1]) THEN [ok |-> FALSE, val |-> 0, rest |-> s]
    ELSE IF Len(s) < 2 \/ ~IsDigit(s[2])
         THEN [ok |-> ~fixed, val |-> DigitVal(s[1]), rest |-> Tail(s)]
         ELSE [ok |-> TRUE, val |-> 10 * DigitVal(s[1]) + DigitVal(s[2]),
               rest |-> SubSeq(s, 3, Len(s))]

\* skip(value, prefix) for a one-character literal of the layout
SkipLit(s, c) ==
    IF s = <<>> \/ s[1] # c THEN [ok |-> FALSE, rest |-> s]
    ELSE [ok |-> TRUE, rest |-> Tail(s)]

\* skip(value, " "): a space of the layout matches a run of spaces
SkipSpace(s) ==
    LET other == {i \in 1..Len(s) : s[i] # " "}
    IN  IF s # <<>> /\ s[1] # " " THEN [ok |-> FALSE, rest |-> s]
        ELSE [ok |-> TRUE,
              rest |-> IF other = {} THEN <<>> ELSE SubSeq(s, SetMin(other), Len(s))]

\* after the seconds, a fraction the layout does not name is read and
\* dropped: a point or comma followed by digits
SkipFraction(s) ==
    IF Len(s) >= 2 /\ s[1] \in {".", ","} /\ IsDigit(s[2])
    THEN LET stop == {i \in 2..Len(s) : ~IsDigit(s[i])}
         IN  IF stop = {} THEN <<>> ELSE SubSeq(s, SetMin(stop), Len(s))
    ELSE s

\* time.ParseInLocation("1/2/06 3:04:05 PM", s, loc): the instant, or not ok.
\* (The two year characters are digits in every cell of the model.)
ParseInLocation(s, loc) ==
    LET mo == GetNum(s, FALSE)
        s1 == SkipLit(mo.rest, "/")
        dy == GetNum(s1.rest, FALSE)
        s2 == SkipLit(dy.rest, "/")
        yy == GetNum(s2.rest, TRUE)
        s3 == SkipSpace(yy.rest)
        hr == GetNum(s3.rest, FALSE)
        s4 == SkipLit(hr.rest, ":")
        mi == GetNum(s4.rest, TRUE)
        s5 == SkipLit(mi.rest, ":")
        se == GetNum(s5.rest, TRUE)
        s6 == SkipSpace(SkipFraction(se.rest))
        ap == SubSeq(s6.rest, 1, 2)
        year == IF yy.val >= 69 THEN 1900 + yy.val ELSE 2000 + yy.val
        hour == IF ap = <<"P", "M">> /\ hr.val < 12 THEN hr.val + 12
                ELSE IF ap = <<"A", "M">> /\ hr.val = 12 THEN 0
                ELSE hr.val
        ok == /\ mo.ok /\ mo.val >= 1 /\ mo.val <= 12
              /\ s1.ok /\ dy.ok /\ s2.ok /\ yy.ok /\ s3.ok
              /\ hr.ok /\ hr.val <= 12
              /\ s4.ok /\ mi.ok /\ mi.val <= 59
              /\ s5.ok /\ se.ok /\ se.val <= 59
              /\ s6.ok
              /\ Len(s6.rest) = 2 /\ ap \in {<<"A", "M">>, <<"P", "M">>}
              /\ dy.val >= 1 /\ dy.val <= DaysIn(mo.val, year)
    IN  IF ~ok THEN [ok |-> FALSE, unix |-> 0]
        ELSE [ok |-> TRUE,
              unix |-> TimeDate(year, mo.val, dy.val, hour, mi.val, se.val, loc)]

\* t.In(loc).Format(time.RFC3339): "2006-01-02T15:04:05Z07:00"
FormatRFC3339(unix, loc) ==
    LET offset == Lookup(loc, unix).offset
        local == unix + offset
        days == local \div 86400
        secs == local % 86400
        y == YearOfDays(days)
        yday == days - DaysBeforeYear(y)
        leap == IF IsLeap(y) THEN 1 ELSE 0
        before(m) == DaysBefore[m] + (IF m >= 3 THEN leap ELSE 0)
        m == CHOOSE k \in 1..12 : before(k) <= yday /\ yday < before(k + 1)
        d == yday - before(m) + 1
        mag == IF offset < 0 THEN 0 - offset ELSE offset
        zone == IF offset = 0 THEN <<"Z">>
                ELSE <<IF offset < 0 THEN "-" ELSE "+">>
                     \o Pad(mag \div 3600, 2) \o <<":">> \o Pad((mag % 3600) \div 60, 2)
    IN  Pad(y, 4) \o <<"-">> \o Pad(m, 2) \o <<"-">> \o Pad(d, 2) \o <<"T">>
        \o Pad(secs \div 3600, 2) \o <<":">> \o Pad((secs % 3600) \div 60, 2)
        \o <<":">> \o Pad(secs % 60, 2) \o zone

----------------------------------------------------------------------------
(* The stages.  A table is a heap h and a sequence recs of references into  *)
(* it; recs[1] is the header.  A column index is 1-based here and 0 stands  *)
(* for the code's -1 (not found).  A stage returns                          *)
(*   [err, panic, heap, recs, warn]                                         *)
(* err: it returned an error; panic: it died of a run-time panic; heap and  *)
(* recs: the heap afterwards and the table returned; warn: the warnings it  *)
(* printed, in order.                                                       *)

\* the column names, as the code spells them
NameTimestamp == <<"T", "i", "m", "e", "s", "t", "a", "m", "p">>
NameZIP == <<"Z", "I", "P">>
NameFullName == <<"F", "u", "l", "l", "N", "a", "m", "e">>
NameAddress == <<"A", "d", "d", "r", "e", "s", "s">>
NameFooDuration == <<"F", "o", "o", "D", "u", "r", "a", "t", "i", "o", "n">>
NameBarDuration == <<"B", "a", "r", "D", "u", "r", "a", "t", "i", "o", "n">>
NameTotalDuration == <<"T", "o", "t", "a", "l", "D", "u", "r", "a", "t", "i", "o", "n">>
NameNotes == <<"N", "o", "t", "e", "s">>

\* `for i, h := range header { if h == name { index = i; break } }`
IndexExact(header, name) ==
    LET hit == {i \in 1..Len(header) : header[i] = name}
    IN  IF hit = {} THEN 0 ELSE SetMin(hit)

\* `for i, h := range header { if strings.EqualFold(h, name) { index = i; break } }`
IndexFold(header, name) ==
    LET hit == {i \in 1..Len(header) : EqualFold(header[i], name)}
    IN  IF hit = {} THEN 0 ELSE SetMin(hit)

\* ProcessDurations' header loop: a switch on the trimmed name with no
\* break out of the loop, so the last match is the one kept
DurationsColumns(header) ==
    LET foo == {i \in 1..Len(header) : TrimSpace(header[i]) = NameFooDuration}
        bar == {i \in 1..Len(header) : TrimSpace(header[i]) = NameBarDuration}
    IN  [foo |-> IF foo = {} THEN 0 ELSE SetMax(foo),
         bar |-> IF bar = {} THEN 0 ELSE SetMax(bar)]

\* TotalDurationColumns with a break after each match: the first match kept
TotalDurationColumnsFirst(header) ==
    LET foo == {i \in 1..Len(header) : TrimSpace(header[i]) = NameFooDuration}
        bar == {i \in 1..Len(header) : TrimSpace(header[i]) = NameBarDuration}
        total == {i \in 1..Len(header) : TrimSpace(header[i]) = NameTotalDuration}
    IN  [foo |-> IF foo = {} THEN 0 ELSE SetMin(foo),
         bar |-> IF bar = {} THEN 0 ELSE SetMin(bar),
         total |-> IF total = {} THEN 0 ELSE SetMin(total)]

\* ProcessTotalDuration's header loop, of the same shape with a third case
TotalDurationColumns(header) ==
    LET foo == {i \in 1..Len(header) : TrimSpace(header[i]) = NameFooDuration}
        bar == {i \in 1..Len(header) : TrimSpace(header[i]) = NameBarDuration}
        total == {i \in 1..Len(header) : TrimSpace(header[i]) = NameTotalDuration}
    IN  [foo |-> IF foo = {} THEN 0 ELSE SetMax(foo),
         bar |-> IF bar = {} THEN 0 ELSE SetMax(bar),
         total |-> IF total = {} THEN 0 ELSE SetMax(total)]

\* NewRow without the copy: `newRow := row`
NewRowInPlace(h, ref) == [heap |-> h, ref |-> ref]

\* `newRow := make([]string, len(row)); copy(newRow, row)`: a fresh slice
\* holding the row's cells
NewRow(h, ref) == [heap |-> Append(h, h[ref]), ref |-> Len(h) + 1]

\* a row step that changes nothing
Keep(row) == [row |-> row, warn |-> <<>>, panic |-> FALSE]

\* a row step that leaves the row and prints one warning
Warn(row, stage, what) ==
    [row |-> row, warn |-> <<[stage |-> stage, kind |-> "warning", value |-> what]>>,
     panic |-> FALSE]

\* a row step that writes cell idx
Set(row, idx, cell) ==
    [row |-> [row EXCEPT ![idx] = cell], warn |-> <<>>, panic |-> FALSE]

\* `if len(records) == 0 { return records, nil }`
ReturnSame(h, recs) ==
    [err |-> FALSE, panic |-> FALSE, heap |-> h, recs |-> recs, warn |-> <<>>]

\* ReturnError with a nil error
ReturnNilNil(h) ==
    [err |-> FALSE, panic |-> FALSE, heap |-> h, recs |-> <<>>, warn |-> <<>>]

\* `return nil, fmt.Errorf(...)`
ReturnError(h) ==
    [err |-> TRUE, panic |-> FALSE, heap |-> h, recs |-> <<>>, warn |-> <<>>]

\* the data rows of a table, as values
DataRowsOf(h, recs) == {h[recs[i]] : i \in 2..Len(recs)}

\* the row loop every stage has: `updated` starts as the header, and each
\* data row is copied, stepped, and appended.  step is the loop's body, as
\* a function of the copied row.  A panic ends the loop (and the process)
\* at the row that raised it.
RowLoop(h, recs, step) ==
    LET n == Len(recs) - 1
        f[i \in 0..n] ==
            IF i = 0
            THEN [heap |-> h, refs |-> <<recs[1]>>, warn |-> <<>>, panic |-> FALSE]
            ELSE LET prev == f[i - 1]
                     nr == NewRow(prev.heap, recs[i + 1])
                     out == step[nr.heap[nr.ref]]
                 IN  IF prev.panic THEN prev
                     ELSE [heap |-> [nr.heap EXCEPT ![nr.ref] = out.row],
                           refs |-> IF out.panic THEN prev.refs
                                    ELSE Append(prev.refs, nr.ref),
                           warn |-> prev.warn \o out.warn,
                           panic |-> out.panic]
        end == f[n]
    IN  [err |-> FALSE, panic |-> end.panic, heap |-> end.heap,
         recs |-> end.refs, warn |-> end.warn]

\* TimestampRow formatting the time in the zone it was parsed in
TimestampRowKeepsZone(row, idx) ==
    IF idx <= Len(row)
    THEN LET t == ParseInLocation(row[idx], Pacific)
         IN  IF ~t.ok THEN Warn(row, "Timestamp", row[idx])
             ELSE Set(row, idx, FormatRFC3339(t.unix, Pacific))
    ELSE Keep(row)

\* the body of ProcessTimestamp's row loop
TimestampRow(row, idx) ==
    IF idx <= Len(row)
    THEN LET t == ParseInLocation(row[idx], Pacific)
         IN  IF ~t.ok THEN Warn(row, "Timestamp", row[idx])
             ELSE Set(row, idx, FormatRFC3339(t.unix, Eastern))
    ELSE Keep(row)

\* tz: whether time.LoadLocation finds the zone database
ProcessTimestamp(h, recs, tz) ==
    IF recs = <<>> THEN ReturnSame(h, recs)
    ELSE LET idx == IndexExact(h[recs[1]], NameTimestamp)
         IN  IF idx = 0 \/ ~tz THEN ReturnError(h)
             ELSE RowLoop(h, recs, [row \in DataRowsOf(h, recs) |-> TimestampRow(row, idx)])

\* the body of ProcessZIPs' row loop
ZIPRow(row, idx) ==
    IF idx <= Len(row)
    THEN LET zip == TrimSpace(row[idx])
         IN  IF zip = <<>> THEN Keep(row)
             ELSE IF Atoi(zip).ok THEN Set(row, idx, Sprintf05s(zip))
             ELSE Warn(row, "ZIP", zip)
    ELSE Keep(row)

ProcessZIPs(h, recs) ==
    IF recs = <<>> THEN ReturnSame(h, recs)
    ELSE LET idx == IndexFold(h[recs[1]], NameZIP)
         IN  IF idx = 0 THEN ReturnError(h)
             ELSE RowLoop(h, recs, [row \in DataRowsOf(h, recs) |-> ZIPRow(row, idx)])

\* FirstNameRow capitalizing only the first letter of the first token
FirstNameRowTitle(row, idx) ==
    IF idx <= Len(row)
    THEN LET original == TrimSpace(row[idx])
             parts == Fields(original)
             title == [parts[1] EXCEPT ![1] = ToUpperChar(parts[1][1])]
         IN  IF original # <<>> /\ Len(parts) > 0
             THEN Set(row, idx, Join([parts EXCEPT ![1] = title], <<" ">>))
             ELSE Keep(row)
    ELSE Keep(row)

\* the body of ProcessFirstName's row loop
FirstNameRow(row, idx) ==
    IF idx <= Len(row)
    THEN LET original == TrimSpace(row[idx])
             parts == Fields(original)
         IN  IF original # <<>> /\ Len(parts) > 0
             THEN Set(row, idx, Join([parts EXCEPT ![1] = ToUpper(parts[1])], <<" ">>))
             ELSE Keep(row)
    ELSE Keep(row)

ProcessFirstName(h, recs) ==
    IF recs = <<>> THEN ReturnSame(h, recs)
    ELSE LET idx == IndexFold(h[recs[1]], NameFullName)
         IN  IF idx = 0 THEN ReturnError(h)
             ELSE RowLoop(h, recs, [row \in DataRowsOf(h, recs) |-> FirstNameRow(row, idx)])

\* the body of ProcessAddress's row loop
AddressRow(row, idx) ==
    IF idx <= Len(row) /\ ~ValidString(row[idx])
    THEN Warn(row, "Address", row[idx])
    ELSE Keep(row)

ProcessAddress(h, recs) ==
    IF recs = <<>> THEN ReturnSame(h, recs)
    ELSE LET idx == IndexFold(h[recs[1]], NameAddress)
         IN  IF idx = 0 THEN ReturnError(h)
             ELSE RowLoop(h, recs, [row \in DataRowsOf(h, recs) |-> AddressRow(row, idx)])

\* parseHHMMSS: three parts between colons, integer hours and minutes,
\* float seconds; the total in seconds
parseHHMMSS(s) ==
    LET parts == Split(s, ":")
        hours == Atoi(parts[1])
        minutes == Atoi(parts[2])
        seconds == ParseFloat(parts[3])
    IN  IF Len(parts) # 3 \/ ~hours.ok \/ ~minutes.ok \/ ~seconds.ok
        THEN [ok |-> FALSE, ms |-> 0, negz |-> FALSE]
        ELSE FloatAdd(FloatOfInt(hours.val * 3600 + minutes.val * 60), seconds)

\* DurationCell blanking the cell it cannot parse
DurationCellClears(row, idx, stage) ==
    IF idx <= Len(row)
    THEN LET sec == parseHHMMSS(row[idx])
         IN  IF ~sec.ok
             THEN [row |-> [row EXCEPT ![idx] = <<>>],
                   warn |-> <<[stage |-> stage, kind |-> "warning", value |-> row[idx]]>>,
                   panic |-> FALSE]
             ELSE Set(row, idx, FormatFixed3(sec))
    ELSE Keep(row)

\* one `if index < len(newRow) { ... }` block of ProcessDurations' row loop
DurationCell(row, idx, stage) ==
    IF idx <= Len(row)
    THEN LET sec == parseHHMMSS(row[idx])
         IN  IF ~sec.ok THEN Warn(row, stage, row[idx])
             ELSE Set(row, idx, FormatFixed3(sec))
    ELSE Keep(row)

\* the body of ProcessDurations' row loop: FooDuration, then BarDuration
DurationsRow(row, cols) ==
    LET foo == DurationCell(row, cols.foo, "FooDuration")
        bar == DurationCell(foo.row, cols.bar, "BarDuration")
    IN  [row |-> bar.row, warn |-> foo.warn \o bar.warn, panic |-> FALSE]

ProcessDurations(h, recs) ==
    IF recs = <<>> THEN ReturnSame(h, recs)
    ELSE LET cols == DurationsColumns(h[recs[1]])
         IN  IF cols.foo = 0 \/ cols.bar = 0 THEN ReturnError(h)
             ELSE RowLoop(h, recs, [row \in DataRowsOf(h, recs) |-> DurationsRow(row, cols)])

\* TotalDurationRow parsing the cells without trimming them
TotalDurationRowNoTrim(row, cols) ==
    IF cols.foo > Len(row) \/ cols.bar > Len(row)
    THEN [row |-> row, warn |-> <<>>, panic |-> TRUE]
    ELSE LET foo == ParseFloat(row[cols.foo])
             bar == ParseFloat(row[cols.bar])
             bad == ~foo.ok \/ ~bar.ok
             warn == IF bad THEN <<[stage |-> "TotalDuration", kind |-> "warning",
                                    value |-> row]>>
                     ELSE <<>>
         IN  IF cols.total > Len(row)
             THEN [row |-> row, warn |-> warn, panic |-> TRUE]
             ELSE [row |-> [row EXCEPT ![cols.total] =
                               IF bad THEN <<>> ELSE FormatFixed3(FloatAdd(foo, bar))],
                   warn |-> warn, panic |-> FALSE]

\* the body of ProcessTotalDuration's row loop.  newRow[fooIndex],
\* newRow[barIndex] and newRow[totalIndex] are indexed with no length
\* check: an index beyond the row is a run-time panic.  The warning is
\* printed before the write.
TotalDurationRow(row, cols) ==
    IF cols.foo > Len(row) \/ cols.bar > Len(row)
    THEN [row |-> row, warn |-> <<>>, panic |-> TRUE]
    ELSE LET foo == ParseFloat(TrimSpace(row[cols.foo]))
             bar == ParseFloat(TrimSpace(row[cols.bar]))
             bad == ~foo.ok \/ ~bar.ok
             warn == IF bad THEN <<[stage |-> "TotalDuration", kind |-> "warning",
                                    value |-> row]>>
                     ELSE <<>>
         IN  IF cols.total > Len(row)
             THEN [row |-> row, warn |-> warn, panic |-> TRUE]
             ELSE [row |-> [row EXCEPT ![cols.total] =
                               IF bad THEN <<>> ELSE FormatFixed3(FloatAdd(foo, bar))],
                   warn |-> warn, panic |-> FALSE]

ProcessTotalDuration(h, recs) ==
    IF recs = <<>> THEN ReturnSame(h, recs)
    ELSE LET cols == TotalDurationColumns(h[recs[1]])
         IN  IF cols.foo = 0 \/ cols.bar = 0 \/ cols.total = 0 THEN ReturnError(h)
             ELSE RowLoop(h, recs, [row \in DataRowsOf(h, recs) |-> TotalDurationRow(row, cols)])

\* transform.String(unicode.UTF8.NewDecoder(), val): every invalid byte
\* becomes U+FFFD.  (The decoder returns no error on a string, so the
\* warning of line 348 is never printed.)
DecodeUTF8(s) == [i \in 1..Len(s) |-> IF s[i] = BadByte THEN RuneError ELSE s[i]]

\* the body of ProcessNotes' row loop
NotesRow(row, idx) ==
    IF idx <= Len(row) /\ ~ValidString(row[idx])
    THEN Set(row, idx, DecodeUTF8(row[idx]))
    ELSE Keep(row)

ProcessNotes(h, recs) ==
    IF recs = <<>> THEN ReturnSame(h, recs)
    ELSE LET idx == IndexFold(h[recs[1]], NameNotes)
         IN  IF idx = 0 THEN ReturnError(h)
             ELSE RowLoop(h, recs, [row \in DataRowsOf(h, recs) |-> NotesRow(row, idx)])

----------------------------------------------------------------------------
(* The input tables of the model.                                          *)

\* the header of a well-formed input file
FullHeader == <<NameTimestamp, NameAddress, NameZIP, NameFullName,
                NameFooDuration, NameBarDuration, NameTotalDuration, NameNotes>>

\* the headers tried: the full one; one column dropped; one name in upper
\* case; one name with a space before it; one name repeated at the end
Headers ==
    {FullHeader}
    \cup {SubSeq(FullHeader, 1, i - 1) \o SubSeq(FullHeader, i + 1, 8) : i \in 1..8}
    \cup {[FullHeader EXCEPT ![i] = ToUpper(FullHeader[i])] : i \in 1..8}
    \cup {[FullHeader EXCEPT ![i] = <<" ">> \o FullHeader[i]] : i \in 1..8}
    \cup {Append(FullHeader, FullHeader[i]) : i \in 1..8}

\* a well-formed cell for the column a header name stands for
BaseCell(name) ==
    LET k == ToUpper(TrimSpace(name))
    IN  CASE k = ToUpper(NameTimestamp) ->
               <<"3", "/", "1", "0", "/", "2", "4", " ", "2", ":", "3", "0", ":",
                 "0", "0", " ", "P", "M">>
          [] k = ToUpper(NameAddress) -> <<"1", " ", "b">>
          [] k = ToUpper(NameZIP) -> <<"1", "2", "3">>
          [] k = ToUpper(NameFullName) -> <<"a", "b", " ", "c">>
          [] k = ToUpper(NameFooDuration) ->
               <<"1", ":", "0", "2", ":", "0", "3", ".", "5", "0", "0">>
          [] k = ToUpper(NameBarDuration) -> <<"0", ":", "0", "0", ":", "0", "5", ".", "5">>
          [] k = ToUpper(NameTotalDuration) -> <<"9">>
          [] OTHER -> <<"n", BadByte, "o">>

BaseRow(header) == [i \in 1..Len(header) |-> BaseCell(header[i])]

\* the rows shorter than the header (ragged rows)
ShortRows(header) == {SubSeq(BaseRow(header), 1, k) : k \in 1..(Len(header) - 1)}

\* all sequences over S of length at most n
RECURSIVE SeqsUpTo(_, _)
SeqsUpTo(S, n) ==
    IF n = 0 THEN {<<>>}
    ELSE LET shorter == SeqsUpTo(S, n - 1)
         IN  shorter \cup {Append(t, c) : t \in shorter, c \in S}

\* ZIP cells: a run of up to MaxZipDigits digits, signed or not, bare or
\* with white space or a letter around it
ZIPCells ==
    LET run(n, first) == [i \in 1..n |-> IF i = 1 THEN first ELSE DigitChars[i + 1]]
        runs == {run(n, first) : n \in 0..MaxZipDigits, first \in {"0", "1"}}
        signed == {sg \o r : sg \in {<<>>, <<"-">>, <<"+">>}, r \in runs}
    IN  signed
        \cup {<<" ">> \o z \o <<"\t", " ">> : z \in signed}
        \cup {z \o <<"b">> : z \in signed}
        \cup {<<"1", " ">> \o z : z \in runs}

\* a timestamp cell from its parts
MkTs(mo, dy, yy, hr, mi, se, ap) ==
    mo \o <<"/">> \o dy \o <<"/">> \o yy \o <<" ">> \o hr \o <<":">> \o mi
       \o <<":">> \o se \o <<" ">> \o ap

\* Timestamp cells: the days around both changes of the clock in 2024 and
\* days far from them, at hours around 2 o'clock and around noon and
\* midnight; and cells the layout rejects or barely accepts
TimestampCells ==
    {MkTs(Itoa(d[1]), Itoa(d[2]), <<"2", "4">>, Itoa(hr), <<"3", "0">>, <<"0", "0">>, ap) :
        d \in {<<3, 9>>, <<3, 10>>, <<11, 2>>, <<11, 3>>, <<7, 4>>, <<1, 15>>,
               <<12, 31>>},
        hr \in {12, 1, 2, 9, 11},
        ap \in {<<"A", "M">>, <<"P", "M">>}}
    \cup {MkTs(mo, <<"1", "0">>, <<"2", "3">>, hr, <<"3", "0">>, <<"5", "9">>, ap) :
            mo \in {<<"3">>, <<"0", "3">>, <<"1", "3">>, <<"0">>, <<"b">>},
            hr \in {<<"2">>, <<"0">>, <<"1", "3">>},
            ap \in {<<"P", "M">>, <<"p", "m">>}}
    \cup {MkTs(<<"2">>, dy, yy, <<"1", "1">>, mi, se, <<"P", "M">>) :
            dy \in {<<"2", "9">>, <<"3", "0">>, <<"0">>},
            yy \in {<<"2", "4">>, <<"2", "3">>, <<"2", "0", "2", "4">>},
            mi \in {<<"0", "0">>, <<"3">>, <<"6", "0">>},
            se \in {<<"0", "0">>, <<"0", "0", ".", "5">>, <<"0", "0", " ">>}}
    \cup {<<>>, <<"b">>}

\* FullName cells: every string of at most MaxNameLen characters
NameCells == SeqsUpTo({"a", "B", " "}, MaxNameLen) \cup {<<"a", BadByte>>, <<BadByte>>}

\* the FullName cells of the tables main is run on
FewNameCells ==
    {<<>>, <<" ", " ">>, <<"a">>, <<"B", "a">>, <<" ", "a", "b", " ", "\t", "c", "d", " ">>,
     <<"a", BadByte, " ", "b">>}

\* duration cells: three parts with one of them varied, and other shapes
DurationCells ==
    LET hours == {Itoa(n) : n \in 0..MaxHours}
                 \cup {<<"-", "1">>, <<"b">>, <<"1", ".", "5">>, <<>>, <<" ", "1">>}
        minutes == {<<"0", "2">>, <<"7">>, <<"+", "5">>, <<"b">>, <<"2", " ">>}
        seconds == {<<"0", "3", ".", "5", "0", "0">>, <<"1", "0">>, <<".", "5">>,
                    <<"3", ".">>, <<"-", "0">>, <<"b">>, <<>>, <<"1", ".", "2", ".", "3">>}
        cell(hh, mm, ss) == hh \o <<":">> \o mm \o <<":">> \o ss
    IN  {cell(hh, <<"0", "2">>, <<"0", "3", ".", "5">>) : hh \in hours}
        \cup {cell(<<"1">>, mm, <<"0", "3", ".", "5">>) : mm \in minutes}
        \cup {cell(<<"0">>, <<"0", "0">>, ss) : ss \in seconds}
        \cup {<<"1", ":", "0", "2">>,
              <<"1", ":", "0", "2", ":", "0", "3", ":", "0", "4">>,
              <<"b", "a", "d">>, <<>>, <<"9", "0">>, <<"1", "0", ".", "0", "0", "0">>,
              <<" ", "5", ".", "5", " ">>, <<"-", "0">>, <<"-", "2", ".", "2", "5">>,
              <<"5", ".", "5", ".", "5">>}

\* the cells the other duration column takes while one ranges over
\* DurationCells
FewDurationCells ==
    {BaseCell(NameBarDuration), <<"b", "a", "d">>, <<"5", ".", "5", "0", "0">>,
     <<"-", "0">>, <<"1", ":", "0", "2">>}

\* Address, Notes and TotalDuration cells
TextCells == {<<>>, <<"n", "o">>, <<BadByte>>, <<"n", BadByte, BadByte, " ", "o">>}

\* the data rows under the full header: the well-formed row with the cell
\* of one column (of both duration columns) replaced
VariedRows ==
    LET base == BaseRow(FullHeader)
    IN  {[base EXCEPT ![1] = c] : c \in TimestampCells}
        \cup {[base EXCEPT ![2] = c] : c \in TextCells}
        \cup {[base EXCEPT ![3] = c] : c \in ZIPCells}
        \cup {[base EXCEPT ![4] = c] : c \in FewNameCells}
        \cup {[base EXCEPT ![5] = c, ![6] = d] : c \in DurationCells, d \in FewDurationCells}
        \cup {[base EXCEPT ![5] = d, ![6] = c] : c \in DurationCells, d \in FewDurationCells}
        \cup {[base EXCEPT ![7] = c] : c \in TextCells}
        \cup {[base EXCEPT ![8] = c] : c \in TextCells}

\* the first data row of a table
FirstRows(header) ==
    {BaseRow(header)} \cup ShortRows(header)
    \cup (IF header = FullHeader THEN VariedRows ELSE {})

\* the data rows after the first
LaterRows(header) == {BaseRow(header), SubSeq(BaseRow(header), 1, 4)}

\* the data rows of a table: none, or a first row and then up to
\* MaxRows - 1 copies of a later row
RowSeqs(header) ==
    {<<>>} \cup {<<r>> \o [i \in 1..k |-> t] : r \in FirstRows(header),
                                              t \in LaterRows(header),
                                              k \in 0..(MaxRows - 1)}

\* what csv.Reader.ReadAll can yield: no record at all, or a header and rows
Tables ==
    {<<>>} \cup UNION {{<<header>> \o rows : rows \in RowSeqs(header)} : header \in Headers}

----------------------------------------------------------------------------
(* main().                                                                 *)

\* the stages in the order main calls them
StageOrder == <<"Timestamp", "ZIP", "FirstName", "Address", "Durations",
                "TotalDuration", "Notes">>

Init ==
    /\ input \in Tables
    /\ pc = "args"
    /\ heap = <<>>
    /\ records = <<>>
    /\ preRecs = <<>>
    /\ preRows = <<>>
    /\ stagesRun = <<>>
    /\ stderr = <<>>
    /\ outFile = [exists |-> FALSE, rows |-> <<>>]
    /\ exitCode = -1

\* `fmt.Fprint*(os.Stderr, ...); os.Exit(1)`
Die(what) ==
    /\ pc' = "exit"
    /\ exitCode' = 1
    /\ stderr' = Append(stderr, [stage |-> what, kind |-> "error", value |-> <<>>])

\* `if len(os.Args) < 3 { usage; os.Exit(1) }`
CheckArgs ==
    /\ pc = "args"
    /\ \E nargs \in 1..3 :
          IF nargs < 3 THEN Die("usage")
          ELSE pc' = "open" /\ UNCHANGED <<stderr, exitCode>>
    /\ UNCHANGED <<input, heap, records, preRecs, preRows, stagesRun, outFile>>

\* `f, err := os.Open(inputPath)`
OpenInput ==
    /\ pc = "open"
    /\ \E ok \in BOOLEAN :
          IF ok THEN pc' = "read" /\ UNCHANGED <<stderr, exitCode>>
          ELSE Die("open")
    /\ UNCHANGED <<input, heap, records, preRecs, preRows, stagesRun, outFile>>

\* `records, err := r.ReadAll()` with FieldsPerRecord = -1: every record of
\* the file, of whatever length, each a slice of its own
ReadAll ==
    /\ pc = "read"
    /\ \E ok \in BOOLEAN :
          IF ok
          THEN /\ heap' = input
               /\ records' = [i \in 1..Len(input) |-> i]
               /\ pc' = "Timestamp"
               /\ UNCHANGED <<stderr, exitCode>>
          ELSE Die("read") /\ UNCHANGED <<heap, records>>
    /\ UNCHANGED <<input, preRecs, preRows, stagesRun, outFile>>

\* OnReturn with the check of err left out
OnReturnIgnoresError(res, next) ==
    IF res.panic THEN [pc |-> "exit", exitCode |-> 2]
    ELSE [pc |-> next, exitCode |-> -1]

\* `records, err = ProcessX(records); if err != nil { ...; os.Exit(1) }`:
\* where main goes when the stage has returned, and its exit status there.
\* A panic ends the process with status 2.
OnReturn(res, next) ==
    IF res.panic THEN [pc |-> "exit", exitCode |-> 2]
    ELSE IF res.err THEN [pc |-> "exit", exitCode |-> 1]
    ELSE [pc |-> next, exitCode |-> -1]

\* one stage call of main
RunStage(name, res, next) ==
    /\ pc = name
    /\ stagesRun' = Append(stagesRun, name)
    /\ preRecs' = records
    /\ preRows' = [i \in 1..Len(records) |-> heap[records[i]]]
    /\ heap' = res.heap
    /\ records' = IF res.panic THEN records ELSE res.recs
    /\ stderr' = stderr \o res.warn \o
                 (IF res.panic THEN <<[stage |-> name, kind |-> "panic", value |-> <<>>]>>
                  ELSE IF res.err THEN <<[stage |-> name, kind |-> "error", value |-> <<>>]>>
                  ELSE <<>>)
    /\ pc' = OnReturn(res, next).pc
    /\ exitCode' = OnReturn(res, next).exitCode
    /\ UNCHANGED <<input, outFile>>

RunTimestamp ==
    \E tz \in BOOLEAN : RunStage("Timestamp", ProcessTimestamp(heap, records, tz), "ZIP")

RunZIPs == RunStage("ZIP", ProcessZIPs(heap, records), "FirstName")

RunFirstName == RunStage("FirstName", ProcessFirstName(heap, records), "Address")

RunAddress == RunStage("Address", ProcessAddress(heap, records), "Durations")

RunDurations == RunStage("Durations", ProcessDurations(heap, records), "TotalDuration")

RunTotalDuration ==
    RunStage("TotalDuration", ProcessTotalDuration(heap, records), "Notes")

RunNotes == RunStage("Notes", ProcessNotes(heap, records), "create")

\* `outFile, err := os.Create(outputPath)`
CreateOutput ==
    /\ pc = "create"
    /\ \E ok \in BOOLEAN :
          IF ok
          THEN /\ outFile' = [exists |-> TRUE, rows |-> <<>>]
               /\ pc' = "write"
               /\ UNCHANGED <<stderr, exitCode>>
          ELSE Die("create") /\ UNCHANGED outFile
    /\ UNCHANGED <<input, heap, records, preRecs, preRows, stagesRun>>

\* `w.WriteAll(records)`, the check of w.Error(), and main's return
WriteOutput ==
    /\ pc = "write"
    /\ \E ok \in BOOLEAN :
          IF ok
          THEN /\ outFile' = [exists |-> TRUE,
                              rows |-> [i \in 1..Len(records) |-> heap[records[i]]]]
               /\ pc' = "exit"
               /\ exitCode' = 0
               /\ UNCHANGED stderr
          ELSE Die("write") /\ UNCHANGED outFile
    /\ UNCHANGED <<input, heap, records, preRecs, preRows, stagesRun>>

\* what main wrote last to os.Stderr
Last(seq) == seq[Len(seq)]

Next ==
    \/ CheckArgs
    \/ OpenInput
    \/ ReadAll
    \/ RunTimestamp
    \/ RunZIPs
    \/ RunFirstName
    \/ RunAddress
    \/ RunDurations
    \/ RunTotalDuration
    \/ RunNotes
    \/ CreateOutput
    \/ WriteOutput

Spec == Init /\ [][Next]_vars

----------------------------------------------------------------------------
(* ProcessFirstName called on its own, twice over: a caller that passes     *)
(* the table the stage returned back to it.                                 *)

\* the tables the stage is called on here
NameTables ==
    {<<FullHeader, [BaseRow(FullHeader) EXCEPT ![4] = c]>> : c \in NameCells}
    \cup {<<FullHeader, [BaseRow(FullHeader) EXCEPT ![4] = c], BaseRow(FullHeader)>> :
            c \in NameCells}

InitFirstName ==
    /\ input \in NameTables
    /\ pc = "unit"
    /\ heap = input
    /\ records = [i \in 1..Len(input) |-> i]
    /\ preRecs = <<>>
    /\ preRows = <<>>
    /\ stagesRun = <<>>
    /\ stderr = <<>>
    /\ outFile = [exists |-> FALSE, rows |-> <<>>]
    /\ exitCode = -1

\* `records, err = ProcessFirstName(records)`
ApplyFirstName ==
    /\ pc = "unit"
    /\ Len(stagesRun) < 2
    /\ LET res == ProcessFirstName(heap, records)
       IN  /\ stagesRun' = Append(stagesRun, "FirstName")
           /\ preRecs' = records
           /\ preRows' = [i \in 1..Len(records) |-> heap[records[i]]]
           /\ heap' = res.heap
           /\ records' = res.recs
           /\ stderr' = stderr \o res.warn
    /\ UNCHANGED <<input, pc, outFile, exitCode>>

NextFirstName == ApplyFirstName

SpecFirstName == InitFirstName /\ [][NextFirstName]_vars

----------------------------------------------------------------------------
(* Vocabulary of the properties.                                           *)

\* the rows a sequence of references stands for, as they are now
RowsOf(recs) == [i \in 1..Len(recs) |-> heap[recs[i]]]

\* where main stands when the k-th stage has returned without error
ReturnsTo(k) == IF k < Len(StageOrder) THEN StageOrder[k + 1] ELSE "create"

\* stage `name` is the last one called and it returned without error
JustReturned(name) ==
    /\ stagesRun # <<>>
    /\ Last(stagesRun) = name
    /\ pc = ReturnsTo(Len(stagesRun))

\* the header of a table; a table with no rows has none
HeaderOf(t) == IF t = <<>> THEN <<>> ELSE t[1]

\* the header holds the column(s) a stage requires, by the matching rule
\* of that column: exact for Timestamp, exact after trimming for the
\* three durations, case-insensitive for the others
HasColumns(header, stage) ==
    LET exact(n) == \E i \in 1..Len(header) : header[i] = n
        trimmed(n) == \E i \in 1..Len(header) : TrimSpace(header[i]) = n
        fold(n) == \E i \in 1..Len(header) : EqualFold(header[i], n)
    IN  CASE stage = "Timestamp" -> exact(NameTimestamp)
          [] stage = "ZIP" -> fold(NameZIP)
          [] stage = "FirstName" -> fold(NameFullName)
          [] stage = "Address" -> fold(NameAddress)
          [] stage = "Durations" -> trimmed(NameFooDuration) /\ trimmed(NameBarDuration)
          [] stage = "TotalDuration" ->
               /\ trimmed(NameFooDuration) /\ trimmed(NameBarDuration)
               /\ trimmed(NameTotalDuration)
          [] stage = "Notes" -> fold(NameNotes)

HasAllColumns(header) == \A k \in 1..Len(StageOrder) : HasColumns(header, StageOrder[k])

\* the entries of stderr that a stage's fatal error left
IsStageError(e) == e.kind = "error" /\ e.stage \in Range(StageOrder)

\* the values of the warnings tagged `stage`, in the order printed
Warnings(stage) ==
    LET hits == SelectSeq(stderr, LAMBDA e : e.stage = stage /\ e.kind = "warning")
    IN  [i \in 1..Len(hits) |-> hits[i].value]

\* the data rows (2..) of the table the last stage was given
DataRows == 2..Len(preRows)

----------------------------------------------------------------------------
(* C1.  A fatal error of a stage ends the run: the stages are called in     *)
(* the fixed order; when one returns an error no later stage is called,     *)
(* the output file is not created and the exit status is 1; and the output  *)
(* file exists only when all seven stages have returned without error.      *)
C1_FatalErrorAborts ==
    /\ stagesRun = SubSeq(StageOrder, 1, Len(stagesRun))
    /\ \A k \in 1..Len(stderr) :
          IsStageError(stderr[k]) =>
             /\ k = Len(stderr)
             /\ Last(stagesRun) = stderr[k].stage
             /\ pc = "exit" /\ exitCode = 1
             /\ ~outFile.exists
    /\ outFile.exists =>
          /\ stagesRun = StageOrder
          /\ \A k \in 1..Len(stderr) : ~IsStageError(stderr[k])

\* the Durations stage failed on a table with data rows: four stages ran
\* before it and none after
C1_Witness ==
    /\ Len(input) > 1
    /\ Len(stagesRun) = 5
    /\ stderr # <<>> /\ Last(stderr) = [stage |-> "Durations", kind |-> "error", value |-> <<>>]
    /\ pc = "exit" /\ exitCode = 1

(* C2 as claimed.  The run exits 0 only if the header holds all eight       *)
(* required columns, and a stage whose column is absent from its table,     *)
(* a table with no rows at all included, fails with a fatal error.          *)
C2_AsClaimed ==
    /\ exitCode = 0 => HasAllColumns(HeaderOf(input))
    /\ (stagesRun # <<>> /\ ~HasColumns(HeaderOf(input), Last(stagesRun))) =>
          /\ pc = "exit" /\ exitCode = 1
          /\ Last(stderr) = [stage |-> Last(stagesRun), kind |-> "error", value |-> <<>>]

(* C2, amended.  For a table with a header row: the run exits 0 only if     *)
(* the header holds all eight required columns, and a stage whose column    *)
(* is absent fails with a fatal error (exit status 1, no output file, no    *)
(* warning of that stage).  A table with no rows at all passes every        *)
(* stage: no stage fails on it.                                             *)
C2_MissingColumnIsFatal ==
    /\ (input # <<>> /\ exitCode = 0) => HasAllColumns(input[1])
    /\ (input # <<>> /\ stagesRun # <<>> /\ ~HasColumns(input[1], Last(stagesRun))) =>
          /\ pc = "exit" /\ exitCode = 1
          /\ ~outFile.exists
          /\ Last(stderr) = [stage |-> Last(stagesRun), kind |-> "error", value |-> <<>>]
          /\ Warnings(Last(stagesRun)) = <<>>
    /\ input = <<>> => \A k \in 1..Len(stderr) : ~IsStageError(stderr[k])

\* the Notes column is missing from a table with data rows and the Notes
\* stage has failed
C2_Witness ==
    /\ Len(input) > 1
    /\ ~HasColumns(input[1], "Notes")
    /\ stagesRun = StageOrder
    /\ pc = "exit" /\ exitCode = 1

(* C3.  With all required columns in the header, rows shorter than the      *)
(* header never make a stage fault, and the run exits 0 unless a file       *)
(* operation or the zone database fails.                                    *)
C3_RaggedRowsNeverFault ==
    (input # <<>> /\ HasAllColumns(input[1])) =>
       /\ exitCode # 2
       /\ \A k \in 1..Len(stderr) : stderr[k].kind # "panic"
       /\ (pc = "exit" /\ \A k \in 1..Len(stderr) : stderr[k].kind # "error")
             => exitCode = 0

----------------------------------------------------------------------------
(* Durations.                                                              *)

\* a duration cell is well-formed under H:MM:SS: three parts between
\* colons, integer hours and minutes, numeric seconds
WellFormedDuration(c) ==
    LET parts == Split(c, ":")
    IN  /\ Len(parts) = 3
        /\ Atoi(parts[1]).ok /\ Atoi(parts[2]).ok /\ ParseFloat(parts[3]).ok

\* a cell reads as a number once trimmed
IsNumber(c) == ParseFloat(TrimSpace(c)).ok

(* C4 as claimed.  After the Durations and TotalDuration stages, in every   *)
(* row with a malformed FooDuration or BarDuration cell that cell is as it  *)
(* was read and the TotalDuration cell is empty.                            *)
C4_AsClaimed ==
    JustReturned("TotalDuration") =>
       LET cols == TotalDurationColumns(input[1])
           now == RowsOf(records)
       IN  \A i \in 2..Len(input) :
              \A c \in {cols.foo, cols.bar} :
                 ~WellFormedDuration(input[i][c]) =>
                    /\ now[i][c] = input[i][c]
                    /\ now[i][cols.total] = <<>>

(* C4, amended.  After the Durations and TotalDuration stages, in every     *)
(* row with a malformed FooDuration or BarDuration cell that cell is as it  *)
(* was read; the TotalDuration cell is empty when the malformed cell,       *)
(* trimmed, is not a number either, and when it is a number (such as "90")  *)
(* it is summed like a converted cell: the TotalDuration cell is then       *)
(* empty only if the other duration cell is neither well-formed nor a       *)
(* number.                                                                  *)
C4_MalformedDuration ==
    JustReturned("TotalDuration") =>
       LET cols == TotalDurationColumns(input[1])
           now == RowsOf(records)
           usable(c) == WellFormedDuration(c) \/ IsNumber(c)
       IN  \A i \in 2..Len(input) :
              \A c \in {cols.foo, cols.bar} :
                 ~WellFormedDuration(input[i][c]) =>
                    /\ now[i][c] = input[i][c]
                    /\ ~IsNumber(input[i][c]) => now[i][cols.total] = <<>>
                    /\ (usable(input[i][cols.foo]) /\ usable(input[i][cols.bar]))
                          => now[i][cols.total] # <<>>

\* a row whose FooDuration cell is malformed and no number has been through
\* both stages, and its TotalDuration cell, which was not empty, is empty
C4_Witness ==
    /\ JustReturned("TotalDuration")
    /\ \E i \in 2..Len(input) :
          LET cols == TotalDurationColumns(input[1])
          IN  /\ ~WellFormedDuration(input[i][cols.foo])
              /\ ~IsNumber(input[i][cols.foo])
              /\ WellFormedDuration(input[i][cols.bar])
              /\ input[i][cols.total] # <<>>
              /\ heap[records[i]][cols.total] = <<>>

(* C6.  The TotalDuration stage sets every row's TotalDuration cell from    *)
(* that row's FooDuration and BarDuration cells alone: their sum to three   *)
(* fractional digits when both, trimmed, are numbers ("10.000" and "5.500"  *)
(* give "15.500"), and otherwise the empty string, with one warning for     *)
(* the row.  Two rows with the same two cells get the same total whatever   *)
(* their TotalDuration cells held before.                                   *)
C6_TotalFromFooAndBar ==
    JustReturned("TotalDuration") =>
       LET cols == TotalDurationColumns(preRows[1])
           now == RowsOf(records)
           foo(i) == preRows[i][cols.foo]
           bar(i) == preRows[i][cols.bar]
           bad(i) == ~IsNumber(foo(i)) \/ ~IsNumber(bar(i))
           failed == SelectSeq([k \in 1..(Len(preRows) - 1) |-> k + 1], bad)
       IN  /\ \A i \in DataRows :
                /\ bad(i) => now[i][cols.total] = <<>>
                /\ ~bad(i) =>
                      now[i][cols.total] =
                         FormatFixed3(FloatAdd(ParseFloat(TrimSpace(foo(i))),
                                               ParseFloat(TrimSpace(bar(i)))))
                /\ (foo(i) = <<"1", "0", ".", "0", "0", "0">>
                      /\ bar(i) = <<"5", ".", "5", "0", "0">>)
                      => now[i][cols.total] = <<"1", "5", ".", "5", "0", "0">>
           /\ \A i, j \in DataRows :
                (foo(i) = foo(j) /\ bar(i) = bar(j))
                   => now[i][cols.total] = now[j][cols.total]
           /\ Warnings("TotalDuration") = [k \in 1..Len(failed) |-> preRows[failed[k]]]

\* two rows with the same duration cells and different TotalDuration cells
\* have been given the same total, 3729.000
C6_Witness ==
    /\ JustReturned("TotalDuration")
    /\ Len(records) = 3
    /\ LET cols == TotalDurationColumns(preRows[1])
       IN  /\ preRows[2][cols.total] # preRows[3][cols.total]
           /\ heap[records[2]][cols.total] = <<"3", "7", "2", "9", ".", "0", "0", "0">>
           /\ heap[records[3]][cols.total] = <<"3", "7", "2", "9", ".", "0", "0", "0">>

(* C10.  For every header, with duplicate or space-padded duration names    *)
(* too, the Durations stage and the TotalDuration stage resolve             *)
(* FooDuration and BarDuration to the same columns, the last ones whose     *)
(* trimmed name matches; so the cells the TotalDuration stage sums are the  *)
(* cells the Durations stage rewrote.                                       *)
C10_SameDurationColumns ==
    input # <<>> =>
       LET header == input[1]
           d == DurationsColumns(header)
           t == TotalDurationColumns(header)
           last(n) == LET hit == {i \in 1..Len(header) : TrimSpace(header[i]) = n}
                      IN  IF hit = {} THEN 0 ELSE SetMax(hit)
       IN  /\ d.foo = t.foo /\ d.bar = t.bar
           /\ d.foo = last(NameFooDuration) /\ d.bar = last(NameBarDuration)
           /\ JustReturned("TotalDuration") =>
                 \A i \in DataRows :
                    LET foo == preRows[i][d.foo]
                        bar == preRows[i][d.bar]
                    IN  (WellFormedDuration(input[i][d.foo])
                           /\ WellFormedDuration(input[i][d.bar])) =>
                          /\ foo = FormatFixed3(parseHHMMSS(input[i][d.foo]))
                          /\ bar = FormatFixed3(parseHHMMSS(input[i][d.bar]))
                          /\ heap[records[i]][t.total] =
                                FormatFixed3(FloatAdd(ParseFloat(foo), ParseFloat(bar)))

\* the header names FooDuration twice and both stages have run on a row:
\* the later column was converted and summed, the earlier one left alone
C10_Witness ==
    /\ JustReturned("TotalDuration")
    /\ Len(input) > 1
    /\ Len(input[1]) = 9 /\ input[1][9] = NameFooDuration
    /\ heap[records[2]][9] = <<"3", "7", "2", "3", ".", "5", "0", "0">>
    /\ heap[records[2]][5] = input[2][5]
    /\ heap[records[2]][7] = <<"3", "7", "2", "9", ".", "0", "0", "0">>

----------------------------------------------------------------------------
(* ZIP.                                                                    *)

(* C5.  The ZIP stage, on every row that has a ZIP cell: a cell that is     *)
(* empty once trimmed stays as it is, with no warning; a trimmed value the  *)
(* integer parse accepts is written back preceded by "0"s only, to a        *)
(* length of max(5, its own length), so never truncated; any other cell     *)
(* stays as it is and its trimmed value is warned about.                    *)
C5_ZIPPadding ==
    JustReturned("ZIP") =>
       LET idx == IndexFold(preRows[1], NameZIP)
           has(i) == idx <= Len(preRows[i])
           zip(i) == TrimSpace(preRows[i][idx])
           out(i) == heap[records[i]][idx]
           bad(i) == has(i) /\ zip(i) # <<>> /\ ~Atoi(zip(i)).ok
           warned == SelectSeq([k \in 1..(Len(preRows) - 1) |-> k + 1], bad)
       IN  /\ \A i \in DataRows :
                has(i) =>
                   IF zip(i) = <<>> \/ ~Atoi(zip(i)).ok
                   THEN out(i) = preRows[i][idx]
                   ELSE /\ Len(out(i)) = (IF Len(zip(i)) > 5 THEN Len(zip(i)) ELSE 5)
                        /\ LET k == Len(out(i)) - Len(zip(i))
                           IN  /\ k >= 0
                               /\ SubSeq(out(i), k + 1, Len(out(i))) = zip(i)
                               /\ \A j \in 1..k : out(i)[j] = "0"
           /\ Warnings("ZIP") = [k \in 1..Len(warned) |-> zip(warned[k])]

\* a six-digit ZIP cell with white space around it has been through the
\* stage and is its six digits; the row after it went from "123" to "00123"
C5_Witness ==
    /\ JustReturned("ZIP")
    /\ Len(records) = 3
    /\ Len(preRows[2]) >= 3 /\ Len(preRows[3]) >= 3
    /\ preRows[2][3] = <<" ", "1", "2", "3", "4", "5", "6", "\t", " ">>
    /\ heap[records[2]][3] = <<"1", "2", "3", "4", "5", "6">>
    /\ preRows[3][3] = <<"1", "2", "3">>
    /\ heap[records[3]][3] = <<"0", "0", "1", "2", "3">>

----------------------------------------------------------------------------
(* Timestamp.                                                              *)

\* the wall clock reading a well-formed Timestamp cell spells, in seconds,
\* read off the text: "M/D/YY h:mm:ss AM|PM"
CellWallClock(c) ==
    LET words == Fields(c)
        date == Split(words[1], "/")
        clock == Split(words[2], ":")
        h12 == DigitsVal(clock[1]) % 12
        hour == IF words[3] = <<"P", "M">> THEN h12 + 12 ELSE h12
    IN  UnixOfCivil(2000 + DigitsVal(date[3]), DigitsVal(date[1]), DigitsVal(date[2]),
                    hour, DigitsVal(clock[2]), DigitsVal(SubSeq(clock[3], 1, 2)))

\* the wall clock reading an RFC3339 text spells, in seconds, and its offset
TextWallClock(t) ==
    UnixOfCivil(DigitsVal(SubSeq(t, 1, 4)), DigitsVal(SubSeq(t, 6, 7)),
                DigitsVal(SubSeq(t, 9, 10)), DigitsVal(SubSeq(t, 12, 13)),
                DigitsVal(SubSeq(t, 15, 16)), DigitsVal(SubSeq(t, 18, 19)))

TextOffset(t) == SubSeq(t, 20, Len(t))

\* the cell is a timestamp at which both zones are on daylight time
BothOnDaylightTime(c) ==
    LET t == ParseInLocation(c, Pacific)
    IN  /\ t.ok
        /\ Lookup(Pacific, t.unix).offset = 0 - 7 * 3600
        /\ Lookup(Eastern, t.unix).offset = 0 - 4 * 3600

\* the example of the specification
ExampleTimestamp ==
    <<"3", "/", "1", "0", "/", "2", "4", " ", "2", ":", "3", "0", ":", "0", "0", " ", "P", "M">>

\* after the Timestamp stage, every cell that was a timestamp with both
\* zones on daylight time reads `hours` hours later and carries -04:00
EasternAhead(hours) ==
    JustReturned("Timestamp") =>
       LET idx == IndexExact(preRows[1], NameTimestamp)
       IN  \A i \in DataRows :
              (idx <= Len(preRows[i]) /\ BothOnDaylightTime(preRows[i][idx])) =>
                 LET out == heap[records[i]][idx]
                 IN  /\ Len(out) = 25
                     /\ TextOffset(out) = <<"-", "0", "4", ":", "0", "0">>
                     /\ TextWallClock(out) - CellWallClock(preRows[i][idx]) = hours * 3600

(* C8 as claimed.  A timestamp at which both zones are on daylight time is  *)
(* rewritten as the Eastern wall clock time 5 hours after the Pacific wall  *)
(* clock time read, with the Eastern offset.                                *)
C8_AsClaimed == EasternAhead(5)

(* C8, amended.  A timestamp at which both zones are on daylight time is    *)
(* rewritten as the Eastern wall clock time 3 hours after the Pacific wall  *)
(* clock time read, with the Eastern offset -04:00: "3/10/24 2:30:00 PM"    *)
(* becomes "2024-03-10T17:30:00-04:00".                                     *)
C8_EasternThreeHoursAhead ==
    /\ EasternAhead(3)
    /\ JustReturned("Timestamp") =>
          \A i \in DataRows :
             preRows[i][1] = ExampleTimestamp =>
                heap[records[i]][1] =
                   <<"2", "0", "2", "4", "-", "0", "3", "-", "1", "0", "T", "1", "7", ":",
                     "3", "0", ":", "0", "0", "-", "0", "4", ":", "0", "0">>

\* the example has been through the stage under the full header
C8_Witness ==
    /\ JustReturned("Timestamp")
    /\ Len(preRows) > 1
    /\ preRows[1] = FullHeader
    /\ preRows[2][1] = ExampleTimestamp
    /\ BothOnDaylightTime(preRows[2][1])
    /\ heap[records[2]][1] # preRows[2][1]

----------------------------------------------------------------------------
(* Frame.                                                                  *)

\* the columns a stage may write
WrittenColumns(stage, header) ==
    CASE stage = "Timestamp" -> {IndexExact(header, NameTimestamp)}
      [] stage = "ZIP" -> {IndexFold(header, NameZIP)}
      [] stage = "FirstName" -> {IndexFold(header, NameFullName)}
      [] stage = "Address" -> {}
      [] stage = "Durations" -> {DurationsColumns(header).foo, DurationsColumns(header).bar}
      [] stage = "TotalDuration" -> {TotalDurationColumns(header).total}
      [] stage = "Notes" -> {IndexFold(header, NameNotes)}

(* C9.  A stage that returns without error returns a table with the same    *)
(* header slice, as many rows in the same order and of the same lengths,    *)
(* and every cell outside the stage's own column(s) as it was (the Address  *)
(* stage has no column of its own); and the rows of the table it was given  *)
(* are as they were when it was called.                                     *)
C9_StageFrame ==
    (stagesRun # <<>> /\ JustReturned(Last(stagesRun))) =>
       LET now == RowsOf(records)
           written == IF preRows = <<>> THEN {}
                      ELSE WrittenColumns(Last(stagesRun), preRows[1])
       IN  /\ Len(records) = Len(preRecs)
           /\ records # <<>> => records[1] = preRecs[1]
           /\ \A i \in 1..Len(preRows) :
                 /\ Len(now[i]) = Len(preRows[i])
                 /\ \A j \in 1..Len(preRows[i]) :
                       (i = 1 \/ j \notin written) => now[i][j] = preRows[i][j]
           /\ RowsOf(preRecs) = preRows

\* the ZIP stage has returned a table of two data rows, one of them
\* shorter than the header, and has rewritten the ZIP cell of both
C9_Witness ==
    /\ JustReturned("ZIP")
    /\ Len(records) = 3
    /\ Len(preRows[3]) < Len(preRows[1])
    /\ Len(preRows[2]) >= 3 /\ Len(preRows[3]) >= 3
    /\ heap[records[2]][3] # preRows[2][3]
    /\ heap[records[3]][3] # preRows[3][3]
    /\ RowsOf(preRecs) = preRows

----------------------------------------------------------------------------
(* FirstName.                                                              *)

(* C7.  Applying the FirstName stage twice gives the table that applying    *)
(* it once gives; and a FullName cell with at least one token is, after     *)
(* the stage, its tokens joined by single spaces with the first one in      *)
(* upper case throughout and the others as they were.                       *)
C7_FirstNameIdempotent ==
    /\ Len(stagesRun) = 2 => RowsOf(records) = preRows
    /\ Len(stagesRun) >= 1 =>
          \A i \in 2..Len(input) :
             LET was == Fields(input[i][4])
                 cell == heap[records[i]][4]
                 toks == Fields(cell)
             IN  was # <<>> =>
                    /\ cell = Join(toks, <<" ">>)
                    /\ Len(toks) = Len(was)
                    /\ toks[1] = ToUpper(was[1])
                    /\ ToUpper(toks[1]) = toks[1]
                    /\ Tail(toks) = Tail(was)

\* the stage has been applied twice to a cell of two tokens in lower case
\* with white space before them
C7_Witness ==
    /\ Len(stagesRun) = 2
    /\ Len(input) > 1 /\ Len(input[2]) >= 4
    /\ input[2][4] = <<" ", "a", "a", " ", "a">>
    /\ preRows[2][4] = <<"A", "A", " ", "a">>
    /\ heap[records[2]][4] = <<"A", "A", " ", "a">>

====
